---- MODULE Spec2Model ----
(***************************************************************************)
(* Model of the chat controller of src/src/App.jsx: the React component    *)
(* App, its startup probe (useEffect) and its submit handler sendMessage.  *)
(*                                                                         *)
(* JavaScript runs one task at a time, so every action below is one task:  *)
(* the synchronous part of a handler up to its next `await`, or the        *)
(* continuation that runs when an awaited promise settles.  The transport  *)
(* (fetch, Response.json) is the environment: it decides when and how an   *)
(* awaited promise settles.  An attempt is identified by the number of its *)
(* accepted submit; the AbortController it creates carries the same number.*)
(*                                                                         *)
(* The module is ASCII: the warning sign U+26A0 U+FE0F that starts the     *)
(* three fixed assistant texts is written "(!)".                           *)
(***************************************************************************)
EXTENDS Integers, Sequences, FiniteSets, TLC

\* Bound: how many times sendMessage is invoked in a run.
MaxCalls == 3

VARIABLES
    input,               \* useState("")            App.jsx:9
    messages,            \* useState([])            App.jsx:10
    loading,             \* useState(false)         App.jsx:11
    status,              \* useState("idle")        App.jsx:12
    abortControllerRef,  \* useRef(null).current    App.jsx:13
    probe,               \* position of the startup effect, App.jsx:15-26
    pc,                  \* position of each sendMessage call
    aborted,             \* ac.signal.aborted of each attempt's controller
    request,             \* the fetch each attempt issued, App.jsx:43-48
    res,                 \* the local `res` of each call: what its fetch resolved with
    trace                \* history: the effects of the handlers, in order

vars == <<input, messages, loading, status, abortControllerRef, probe, pc,
          aborted, request, res, trace>>

Null == 0
Attempts == 1..MaxCalls
NoRequest == [url |-> "", prompt |-> "", signal |-> Null]
NoResponse == [ok |-> FALSE, statusText |-> ""]

----------------------------------------------------------------------------
(* String.prototype.trim, App.jsx:29-30 *)

Whitespace == {" ", "\t", "\n"}

CharAt(s, i) == SubSeq(s, i, i)

RECURSIVE TrimStart(_)
TrimStart(s) ==
    IF Len(s) > 0 /\ CharAt(s, 1) \in Whitespace
    THEN TrimStart(SubSeq(s, 2, Len(s)))
    ELSE s

RECURSIVE TrimEnd(_)
TrimEnd(s) ==
    IF Len(s) > 0 /\ CharAt(s, Len(s)) \in Whitespace
    THEN TrimEnd(SubSeq(s, 1, Len(s) - 1))
    ELSE s

Trim_Identity(s) == s

Trim_StartOnly(s) == TrimStart(s)

Trim(s) == TrimEnd(TrimStart(s))

\* What the user can have typed into the input box.
InputChoices == {"", " \t\n", "  a b \n"}

----------------------------------------------------------------------------
(* The fixed assistant texts, App.jsx:52, 70, 72 *)

ErrorPrefix == "(!) Error: "
CancelledText == "(!) Request cancelled (newer request arrived)."
NetworkErrorText == "(!) Network error or server error"

\* A message {role, text}; its text is a JavaScript value (see below), a
\* string in all but the replies taken from a body whose field is no string.
\* The field `by` is history: the attempt whose code appended the message.
UserMessage(n, prompt) ==
    [role |-> "user", text |-> [type |-> "string", str |-> prompt], by |-> n]
AssistantMessage(n, text) == [role |-> "assistant", text |-> text, by |-> n]

AppendMessage_Prepend(m, x) == <<x>> \o m

AppendMessage_Reset(m, x) == <<x>>

\* The updater m => [...m, x] of setMessages.
AppendMessage(m, x) == Append(m, x)

----------------------------------------------------------------------------
(* JavaScript values: what Response.json() resolves with, and what a       *)
(* message's text field holds.  An object keeps its keys in insertion      *)
(* order, as JSON.parse and JSON.stringify do.                             *)

JString(s) == [type |-> "string", str |-> s]
JNumber(n) == [type |-> "number", num |-> n]
JNull == [type |-> "null"]
Undefined == [type |-> "undefined"]
JArray(items) == [type |-> "array", items |-> items]
JObject(keys, vals) == [type |-> "object", keys |-> keys, vals |-> vals]

\* v[k], for a v that is neither null nor undefined.
Get(v, k) ==
    CASE v.type = "object" ->
            IF \E i \in 1..Len(v.keys) : v.keys[i] = k
            THEN v.vals[CHOOSE i \in 1..Len(v.keys) : v.keys[i] = k]
            ELSE Undefined
      [] v.type = "array" ->
            IF k = "0" /\ Len(v.items) >= 1 THEN v.items[1] ELSE Undefined
      [] v.type = "string" ->
            IF k = "0" /\ Len(v.str) >= 1 THEN JString(CharAt(v.str, 1)) ELSE Undefined
      [] OTHER -> Undefined

\* v?.k and v?.[k]
OptGet(v, k) == IF v.type \in {"null", "undefined"} THEN Undefined ELSE Get(v, k)

\* ToBoolean
Truthy(v) ==
    CASE v.type = "string" -> v.str # ""
      [] v.type = "number" -> v.num # 0
      [] v.type \in {"null", "undefined"} -> FALSE
      [] OTHER -> TRUE

RECURSIVE Stringify(_)
RECURSIVE StringifyItems(_)
RECURSIVE StringifyMembers(_, _)

\* The elements of an array, comma separated.
StringifyItems(items) ==
    IF Len(items) = 0 THEN ""
    ELSE Stringify(Head(items))
         \o (IF Len(items) > 1 THEN "," ELSE "")
         \o StringifyItems(Tail(items))

\* The members of an object, comma separated.
StringifyMembers(keys, vals) ==
    IF Len(keys) = 0 THEN ""
    ELSE "\"" \o Head(keys) \o "\":" \o Stringify(Head(vals))
         \o (IF Len(keys) > 1 THEN "," ELSE "")
         \o StringifyMembers(Tail(keys), Tail(vals))

\* JSON.stringify of a parsed JSON value (strings of the model need no escapes).
Stringify(v) ==
    CASE v.type = "string" -> "\"" \o v.str \o "\""
      [] v.type = "number" -> ToString(v.num)
      [] v.type = "null" -> "null"
      [] v.type = "array" -> "[" \o StringifyItems(v.items) \o "]"
      [] v.type = "object" -> "{" \o StringifyMembers(v.keys, v.vals) \o "}"

\* String.prototype.slice(0, n)
Slice(s, n) == SubSeq(s, 1, IF Len(s) < n THEN Len(s) ELSE n)

\* The length the serialized body is cut to, App.jsx:62.
ReplyLimit == 2000

ExtractReply_TextFirst(data) ==
    LET first == OptGet(OptGet(data, "output"), "0")
    IN  IF Truthy(OptGet(first, "text")) THEN Get(first, "text")
        ELSE IF Truthy(OptGet(first, "generated_text")) THEN Get(first, "generated_text")
        ELSE IF data.type = "string" THEN data
        ELSE JString(Slice(Stringify(data), ReplyLimit))

\* The reply of a success response, App.jsx:56-65.
ExtractReply(data) ==
    LET first == OptGet(OptGet(data, "output"), "0")
    IN  IF Truthy(OptGet(first, "generated_text")) THEN Get(first, "generated_text")
        ELSE IF Truthy(OptGet(first, "text")) THEN Get(first, "text")
        ELSE IF data.type = "string" THEN data
        ELSE JString(Slice(Stringify(data), ReplyLimit))

\* String(v) of a template literal, for the values an error field holds here.
ToStr(v) ==
    CASE v.type = "string" -> v.str
      [] v.type = "number" -> ToString(v.num)
      [] v.type = "object" -> "[object Object]"

ErrorText_StatusOnly(err, r) == ErrorPrefix \o r.statusText

\* The text of the message for a failure status, App.jsx:52; err is JNull
\* when res.json() rejected and .catch(() => null) replaced it.
ErrorText(err, r) ==
    LET e == OptGet(err, "error")
    IN  ErrorPrefix \o (IF Truthy(e) THEN ToStr(e) ELSE r.statusText)

----------------------------------------------------------------------------
(* The transport's answers *)

\* The Responses fetch resolves with: status and statusText.
Responses ==
    {[ok |-> TRUE, statusText |-> "OK"],
     [ok |-> FALSE, statusText |-> "Internal Server Error"]}

\* The bodies res.json() resolves with for a success status.
SuccessBodies ==
    {JObject(<<"output">>, <<JArray(<<JObject(<<"generated_text">>, <<JString("hello")>>)>>)>>)}

\* The bodies res.json() resolves with for a failure status.
ErrorBodies ==
    {JObject(<<"error">>, <<JString("overloaded")>>)}

\* The name of the error a rejected fetch or res.json() throws for attempt n:
\* an aborted signal rejects with an AbortError, a network failure with a
\* TypeError, a malformed body with a SyntaxError.
RejectionNames(n) ==
    IF aborted[n] THEN {"AbortError"}
    ELSE IF pc[n] = "fetch" THEN {"TypeError"}
    ELSE {"TypeError", "SyntaxError"}

----------------------------------------------------------------------------
(* The state after the first render, before the effect has run. *)

Init ==
    /\ input = ""
    /\ messages = <<>>
    /\ loading = FALSE
    /\ status = "idle"
    /\ abortControllerRef = Null
    /\ probe = "mount"
    /\ pc = [n \in Attempts |-> "new"]
    /\ aborted = [n \in Attempts |-> FALSE]
    /\ request = [n \in Attempts |-> NoRequest]
    /\ res = [n \in Attempts |-> NoResponse]
    /\ trace = <<>>

chatVars == <<input, messages, loading, abortControllerRef, pc, aborted,
              request, res, trace>>

----------------------------------------------------------------------------
(* The startup probe, App.jsx:15-26 *)

\* The effect runs: setStatus("warming") and GET /ping is issued.
ProbeStart ==
    /\ probe = "mount"
    /\ status' = "warming"
    /\ probe' = "ping"
    /\ UNCHANGED chatVars

ProbeOk_ClearsLoading ==
    /\ probe = "ping"
    /\ status' = "ready"
    /\ probe' = "done"
    /\ loading' = FALSE
    /\ UNCHANGED <<input, messages, abortControllerRef, pc, aborted,
                   request, res, trace>>

\* The ping resolved: setStatus("ready").
ProbeOk ==
    /\ probe = "ping"
    /\ status' = "ready"
    /\ probe' = "done"
    /\ UNCHANGED chatVars

ProbeFail_StaysWarming ==
    /\ probe = "ping"
    /\ status' = "warming"
    /\ probe' = "done"
    /\ UNCHANGED chatVars

\* The ping rejected: setStatus("idle").
ProbeFail ==
    /\ probe = "ping"
    /\ status' = "idle"
    /\ probe' = "done"
    /\ UNCHANGED chatVars

----------------------------------------------------------------------------
(* The input box, App.jsx:112-118.  React runs the mount effect before it  *)
(* handles the first user event.                                           *)

\* onChange: setInput(e.target.value)
Type(s) ==
    /\ probe # "mount"
    /\ s # input
    /\ input' = s
    /\ UNCHANGED <<messages, loading, status, abortControllerRef, probe, pc,
                   aborted, request, res, trace>>

----------------------------------------------------------------------------
(* sendMessage, App.jsx:28-78 *)

Event(ev, n) == [ev |-> ev, id |-> n]

\* The number of sendMessage invocations so far, accepted or ignored.
Calls == Cardinality({i \in 1..Len(trace) : trace[i].ev \in {"user", "ignored"}})

\* The number of accepted submits so far.
Accepted == Cardinality({n \in Attempts : pc[n] # "new"})

\* The synchronous effects of an accepted submit n, in the order of the
\* statements that make them (App.jsx:31, 37, 40, 43); prev is the slot's
\* content when the call starts.
SubmitEvents(n, prev) ==
    <<Event("user", n)>>
    \o (IF prev # Null THEN <<Event("abort", prev)>> ELSE <<>>)
    \o <<Event("store", n), Event("fetch", n)>>

\* The controllers an accepted submit aborts, App.jsx:36-38.
AbortTargets(prev) == IF prev # Null THEN {prev} ELSE {}

InputAfterSubmit_Kept(prompt) == prompt

\* setInput("") of an accepted submit, App.jsx:32.
InputAfterSubmit(prompt) == ""

\* Enter or the Send button: the call up to `await fetch(...)`.
SendMessage ==
    /\ probe # "mount"
    /\ Calls < MaxCalls
    /\ IF Trim(input) = ""
       THEN /\ trace' = Append(trace, Event("ignored", Null))
            /\ UNCHANGED <<input, messages, loading, status, abortControllerRef,
                           probe, pc, aborted, request, res>>
       ELSE LET n == Accepted + 1
                prompt == Trim(input)
                prev == abortControllerRef
            IN  /\ messages' = AppendMessage(messages, UserMessage(n, prompt))
                /\ input' = InputAfterSubmit(prompt)
                /\ loading' = TRUE
                /\ aborted' = [k \in Attempts |->
                                 aborted[k] \/ k \in AbortTargets(prev)]
                /\ abortControllerRef' = n
                /\ request' = [request EXCEPT ![n] =
                                 [url |-> "/chat", prompt |-> prompt, signal |-> n]]
                /\ pc' = [pc EXCEPT ![n] = "fetch"]
                /\ trace' = trace \o SubmitEvents(n, prev)
                /\ UNCHANGED <<status, probe, res>>

CatchText_Negated(name) ==
    IF name # "AbortError" THEN JString(CancelledText) ELSE JString(NetworkErrorText)

\* The text of the message the catch block appends, App.jsx:68-73.
CatchText(name) ==
    IF name = "AbortError" THEN JString(CancelledText) ELSE JString(NetworkErrorText)

CatchMessages_IgnoreAbort(n, name) ==
    IF name = "AbortError" THEN messages
    ELSE AppendMessage(messages, AssistantMessage(n, CatchText(name)))

CatchMessages_NoElse(n, name) ==
    IF name = "AbortError"
    THEN AppendMessage(AppendMessage(messages,
                           AssistantMessage(n, JString(CancelledText))),
                       AssistantMessage(n, JString(NetworkErrorText)))
    ELSE AppendMessage(messages, AssistantMessage(n, JString(NetworkErrorText)))

\* The log after the catch block of attempt n, App.jsx:68-73.
CatchMessages(n, name) ==
    AppendMessage(messages, AssistantMessage(n, CatchText(name)))

FinallyLoading_Kept == loading

\* The finally block, App.jsx:74-77: setLoading(false) and
\* abortControllerRef.current = null, whatever the slot holds.
FinallyLoading == FALSE
FinallyRef(n) == Null

\* Attempt n leaves the try statement with the log `after`, the finally
\* block runs and the call returns: its local `res` is gone.
Settle(n, after) ==
    /\ messages' = after
    /\ res' = [res EXCEPT ![n] = NoResponse]
    /\ loading' = FinallyLoading
    /\ abortControllerRef' = FinallyRef(n)
    /\ pc' = [pc EXCEPT ![n] = "done"]
    /\ trace' = trace
                \o (IF after # messages THEN <<Event("assistant", n)>> ELSE <<>>)
                \o <<Event("finally", n)>>
    /\ UNCHANGED <<input, status, probe, aborted, request>>

\* fetch resolves with a Response: the call goes on to read the body.
FetchResolve(n, r) ==
    /\ pc[n] = "fetch"
    /\ ~aborted[n]
    /\ res' = [res EXCEPT ![n] = r]
    /\ pc' = [pc EXCEPT ![n] = IF r.ok THEN "json" ELSE "errjson"]
    /\ UNCHANGED <<input, messages, loading, status, abortControllerRef, probe,
                   aborted, request, trace>>

\* fetch rejects: the catch block, App.jsx:68-73.
FetchReject(n, name) ==
    /\ pc[n] = "fetch"
    /\ name \in RejectionNames(n)
    /\ Settle(n, CatchMessages(n, name))

\* res.json() of a success response resolves, App.jsx:54-66.
JsonResolve(n, data) ==
    /\ pc[n] = "json"
    /\ ~aborted[n]
    /\ Settle(n, AppendMessage(messages, AssistantMessage(n, ExtractReply(data))))

\* res.json() of a success response rejects: the catch block.
JsonReject(n, name) ==
    /\ pc[n] = "json"
    /\ name \in RejectionNames(n)
    /\ Settle(n, CatchMessages(n, name))

\* res.json() of a failure response resolves, App.jsx:51-52.
ErrJsonResolve(n, err) ==
    /\ pc[n] = "errjson"
    /\ ~aborted[n]
    /\ Settle(n, AppendMessage(messages,
                   AssistantMessage(n, JString(ErrorText(err, res[n])))))

\* res.json() of a failure response rejects, whatever the error (an aborted
\* signal included): .catch(() => null) turns it into null, App.jsx:51-52.
ErrJsonReject(n) ==
    /\ pc[n] = "errjson"
    /\ Settle(n, AppendMessage(messages,
                   AssistantMessage(n, JString(ErrorText(JNull, res[n])))))

\* One step of the transport for attempt n.
Transport(n) ==
    \/ \E r \in Responses : FetchResolve(n, r)
    \/ \E name \in {"AbortError", "TypeError"} : FetchReject(n, name)
    \/ \E data \in SuccessBodies : JsonResolve(n, data)
    \/ \E name \in {"AbortError", "TypeError", "SyntaxError"} : JsonReject(n, name)
    \/ \E err \in ErrorBodies : ErrJsonResolve(n, err)
    \/ ErrJsonReject(n)

----------------------------------------------------------------------------

Next ==
    \/ ProbeStart
    \/ ProbeOk
    \/ ProbeFail
    \/ \E s \in InputChoices : Type(s)
    \/ SendMessage
    \/ \E n \in Attempts : Transport(n)

Spec == Init /\ [][Next]_vars

\* The transport settles every promise it handed out: a pending fetch or
\* res.json() of an attempt eventually resolves or rejects.
FairSpec == Spec /\ \A n \in Attempts : WF_vars(Transport(n))

----------------------------------------------------------------------------
(* Reply extraction and error texts over many bodies.  ReplySpec runs the   *)
(* program one exchange at a time; the first exchange draws its body from  *)
(* the sets below, the later ones from the sets of the main specification. *)

RECURSIVE Repeat(_, _)
Repeat(s, n) == IF n = 0 THEN "" ELSE s \o Repeat(s, n - 1)

\* A string longer than the reply limit.
LongString == Repeat("0123456789", 210)

\* Bodies output[0] is taken from: generated_text and text absent, empty
\* or filled.
FirstItems ==
    {JObject(<<>>, <<>>),
     JObject(<<"generated_text">>, <<JString("")>>),
     JObject(<<"generated_text">>, <<JString("hi")>>),
     JObject(<<"text">>, <<JString("")>>),
     JObject(<<"text">>, <<JString("hey")>>),
     JObject(<<"generated_text", "text">>, <<JString(""), JString("")>>),
     JObject(<<"generated_text", "text">>, <<JString(""), JString("hey")>>),
     JObject(<<"generated_text", "text">>, <<JString("hi"), JString("")>>),
     JObject(<<"text", "generated_text">>, <<JString("hey"), JString("hi")>>),
     JString("generated_text"),
     JNull}

\* The values of the output field.
OutputValues ==
    {JNull, JArray(<<>>), JString("text"), JObject(<<"text">>, <<JString("hey")>>)}
    \cup {JArray(<<f>>) : f \in FirstItems}
    \cup {JArray(<<JObject(<<>>, <<>>), f>>) : f \in FirstItems}

\* The success bodies of the first exchange: objects with and without an
\* output field, short and longer than the limit when serialized, and
\* bodies that are no object.
ReplyBodies ==
    {JObject(<<"output">>, <<o>>) : o \in OutputValues}
    \cup {JObject(<<"output", "pad">>, <<o, JString(LongString)>>) : o \in OutputValues}
    \cup {JObject(<<"results">>, <<JArray(<<>>)>>),
          JObject(<<"generated_text">>, <<JString("hi")>>),
          JObject(<<"pad">>, <<JString(LongString)>>),
          JString("ok"), JString(""), JString(LongString),
          JNull, JNumber(0), JNumber(42),
          JArray(<<>>), JArray(<<JObject(<<"generated_text">>, <<JString("hi")>>)>>)}

\* The failure bodies of the first exchange.
ErrorReplyBodies ==
    {JObject(<<"error">>, <<JString("overloaded")>>),
     JObject(<<"error">>, <<JString("")>>),
     JObject(<<"error", "code">>, <<JString("rate limited"), JNumber(429)>>),
     JObject(<<"message">>, <<JString("bad gateway")>>),
     JObject(<<>>, <<>>),
     JNull,
     JString("error"),
     JArray(<<>>)}

\* Enter or Send while no exchange is in flight.
SendMessageAtRest ==
    /\ \A n \in Attempts : pc[n] \in {"new", "done"}
    /\ SendMessage

ReplyNext ==
    \/ ProbeStart
    \/ \E s \in InputChoices : Type(s)
    \/ SendMessageAtRest
    \/ \E n \in Attempts, r \in Responses : FetchResolve(n, r)
    \/ \E n \in Attempts, name \in {"TypeError"} : FetchReject(n, name)
    \/ \E n \in Attempts :
          \E data \in (IF n = 1 THEN ReplyBodies ELSE SuccessBodies) :
              JsonResolve(n, data)
    \/ \E n \in Attempts, name \in {"SyntaxError"} : JsonReject(n, name)
    \/ \E n \in Attempts :
          \E err \in (IF n = 1 THEN ErrorReplyBodies ELSE ErrorBodies) :
              ErrJsonResolve(n, err)
    \/ \E n \in Attempts : ErrJsonReject(n)

ReplySpec == Init /\ [][ReplyNext]_vars

----------------------------------------------------------------------------
(* Vocabulary of the properties *)

\* The exchanges that were issued and have not settled.
Outstanding == {n \in Attempts : pc[n] \in {"fetch", "json", "errjson"}}

\* The outstanding exchanges nobody asked to cancel.
Live == {n \in Outstanding : ~aborted[n]}

\* The places in the log of the messages of attempt n with the given role.
MessagesOf(n, role) ==
    {i \in 1..Len(messages) : messages[i].by = n /\ messages[i].role = role}

\* The places of an effect in the history.
Places(ev, n) == {i \in 1..Len(trace) : trace[i] = Event(ev, n)}

\* Some ev1 of n1 comes before some ev2 of n2.
Before(ev1, n1, ev2, n2) ==
    \E i \in Places(ev1, n1), j \in Places(ev2, n2) : i < j

\* Attempt n has settled with the cancellation message.
SettledCancelled(n) ==
    /\ pc[n] = "done"
    /\ \E i \in MessagesOf(n, "assistant") : messages[i].text = JString(CancelledText)

----------------------------------------------------------------------------
(* C1 *)

\* The log holds one user message of every accepted submit, and one
\* assistant message of every settled one and of no other.
OneMessagePerSubmit ==
    \A n \in Attempts :
        /\ Cardinality(MessagesOf(n, "user")) = (IF pc[n] = "new" THEN 0 ELSE 1)
        /\ Cardinality(MessagesOf(n, "assistant")) = (IF pc[n] = "done" THEN 1 ELSE 0)

\* C1: every accepted submit appends exactly one user message at the call,
\* and, the transport settling its promises, exactly one assistant message
\* is eventually appended for it, whatever the outcome and however the
\* submits overlap.
C1_OneUserOneAssistant ==
    /\ []OneMessagePerSubmit
    /\ \A n \in Attempts :
          (pc[n] # "new") ~> (Cardinality(MessagesOf(n, "assistant")) = 1)

\* Three overlapping submits have settled: two cancelled, each with its one
\* assistant message, and the last one not cancelled.
C1_Witness ==
    /\ OneMessagePerSubmit
    /\ \A n \in 1..3 : pc[n] = "done"
    /\ SettledCancelled(1)
    /\ aborted[2]
    /\ ~aborted[3]

----------------------------------------------------------------------------
(* C2 *)

\* C2: at most one chat exchange is live at any time: there are never two
\* exchanges that are both unsettled and both not asked to cancel.
C2_AtMostOneLive == Cardinality(Live) <= 1

----------------------------------------------------------------------------
(* C3 *)

\* C3: when an attempt settles, the slot is cleared only if it still holds
\* that attempt's own handle; the settling of an older attempt leaves a
\* newer attempt's handle in the slot.
C3_ClearOnlyOwnHandle ==
    [][\A n \in Attempts :
          (pc[n] # "done" /\ pc'[n] = "done" /\ abortControllerRef # n)
              => abortControllerRef' = abortControllerRef]_vars

----------------------------------------------------------------------------
(* C4 *)

\* C4: the busy flag is true exactly in the states in which some accepted
\* submit has not settled.
C4_BusyIffOutstanding == loading <=> (Outstanding # {})

----------------------------------------------------------------------------
(* C5 *)

\* A later submit was accepted while attempt n had not settled.
Superseded(n) ==
    \E m \in Attempts :
        /\ m > n
        /\ Places("user", m) # {}
        /\ ~Before("finally", n, "user", m)

\* C5: an attempt that a later submit overlapped settles with the
\* cancellation message and nothing else, and an attempt no later submit
\* overlapped never settles with the cancellation message.
C5_OverlappedIsCancelled ==
    \A n \in Attempts :
        pc[n] = "done" =>
            /\ Superseded(n) =>
                  \A i \in MessagesOf(n, "assistant") :
                      messages[i].text = JString(CancelledText)
            /\ SettledCancelled(n) => Superseded(n)

----------------------------------------------------------------------------
(* C6 *)

\* The content of the slot right before place i of the history.
SlotBefore(i) ==
    LET writes == {j \in 1..(i - 1) : trace[j].ev \in {"store", "finally"}}
        last == CHOOSE j \in writes : \A k \in writes : k <= j
    IN  IF writes = {} THEN Null
        ELSE IF trace[last].ev = "store" THEN trace[last].id
        ELSE FinallyRef(trace[last].id)

\* C6: when the request of a submit is issued, the cancellation of every
\* earlier attempt still in flight has been requested, and the slot holds
\* the handle of the submit that issues the request.
C6_CancelBeforeNextRequest ==
    \A m \in Attempts : \A i \in Places("fetch", m) :
        /\ \A n \in 1..(m - 1) :
              (\A j \in Places("finally", n) : j > i)
                  => \E j \in Places("abort", n) : j < i
        /\ SlotBefore(i) = m

----------------------------------------------------------------------------
(* C7 *)

\* No chat exchange is outstanding, the busy flag is false and the slot
\* is empty.
AtRest == Outstanding = {} /\ ~loading /\ abortControllerRef = Null

\* C7: whenever no exchange is outstanding the busy flag is false and the
\* slot is empty, and, the transport settling its promises, every state
\* with an outstanding exchange is followed by such a state.
C7_NeverStuck ==
    /\ [](Outstanding = {} => AtRest)
    /\ (Outstanding # {}) ~> AtRest

\* At rest after three submits that ended in a cancellation, a network
\* error and an HTTP error.
C7_Witness ==
    /\ AtRest
    /\ \A n \in 1..3 : pc[n] = "done"
    /\ \E i \in 1..Len(messages) : messages[i].text = JString(CancelledText)
    /\ \E i \in 1..Len(messages) : messages[i].text = JString(NetworkErrorText)
    /\ \E i \in 1..Len(messages) :
          messages[i].text = JString(ErrorPrefix \o "Internal Server Error")

----------------------------------------------------------------------------
(* C8 *)

\* The string is empty or holds nothing but whitespace.
IsBlank(s) == \A i \in 1..Len(s) : CharAt(s, i) \in Whitespace

\* C8: a call of sendMessage with a blank input changes nothing: no
\* message, no request, no cancellation, the same slot and busy flag.
C8_BlankSubmitIsNoOp ==
    [][(Calls' = Calls + 1 /\ IsBlank(input))
          => /\ UNCHANGED <<input, messages, loading, status, abortControllerRef,
                            probe, pc, aborted, request, res>>
             /\ trace' = Append(trace, Event("ignored", Null))]_vars

\* A whitespace-only input has just been submitted and ignored while an
\* exchange is in flight and not cancelled.
C8_Witness ==
    /\ Len(trace) > 0
    /\ trace[Len(trace)].ev = "ignored"
    /\ input # "" /\ IsBlank(input)
    /\ abortControllerRef # Null
    /\ abortControllerRef \in Live
    /\ loading

----------------------------------------------------------------------------
(* C9 *)

\* C9: the user message of a submit is appended before its request is
\* issued, and its request is issued before its assistant message is
\* appended; in the log the user message of an attempt precedes its
\* assistant message.
C9_UserRequestAssistantOrder ==
    \A n \in Attempts :
        /\ \A j \in Places("fetch", n) : \E i \in Places("user", n) : i < j
        /\ \A k \in Places("assistant", n) : \E j \in Places("fetch", n) : j < k
        /\ \A i \in MessagesOf(n, "user"), k \in MessagesOf(n, "assistant") : i < k
        /\ Cardinality(MessagesOf(n, "user")) = Cardinality(Places("user", n))
        /\ Cardinality(MessagesOf(n, "assistant")) = Cardinality(Places("assistant", n))

\* The first attempt has its assistant message, and the user message of a
\* later attempt lies between its two messages.
C9_Witness ==
    /\ Len(messages) >= 3
    /\ messages[1].by = 1 /\ messages[1].role = "user"
    /\ messages[2].by = 2 /\ messages[2].role = "user"
    /\ \E k \in MessagesOf(1, "assistant") : k > 2

----------------------------------------------------------------------------
(* C10 *)

\* C10: a cancellation message of attempt n is in the log only if a newer
\* attempt had stored its handle in the slot before the message was
\* appended, so that the slot was no longer n's.
C10_CancelledAfterTakeover ==
    \A i \in 1..Len(messages) :
        (messages[i].role = "assistant" /\ messages[i].text = JString(CancelledText))
            => LET n == messages[i].by
               IN  /\ \E m \in Attempts : m > n /\ Before("store", m, "assistant", n)
                   /\ \A k \in Places("assistant", n) : SlotBefore(k) # n

\* The first attempt was cancelled and its cancellation message is in the
\* log, while the attempt that took the slot over is reading its body.
C10_Witness ==
    /\ SettledCancelled(1)
    /\ pc[2] = "json"
    /\ Len(messages) = 3

----------------------------------------------------------------------------
(* C11 *)

\* C11: the log is append-only: every step leaves it unchanged or extends
\* it at the end; no message is removed, reordered or changed.
C11_LogAppendOnly ==
    [][/\ Len(messages') >= Len(messages)
       /\ SubSeq(messages', 1, Len(messages)) = messages]_vars

\* Three exchanges have settled and the probe has completed: the log holds
\* six messages, appended by submits and by settles of every kind.
C11_Witness ==
    /\ Len(messages) = 6
    /\ probe = "done"
    /\ \E i \in 1..6 : messages[i].text = JString(CancelledText)
    /\ \E i \in 1..6 : messages[i].text = JString("hello")

----------------------------------------------------------------------------
(* C12 *)

\* The field f of an object, Undefined when v is no object or has no f.
FieldOf(v, f) ==
    IF v.type = "object" /\ \E i \in 1..Len(v.keys) : v.keys[i] = f
    THEN v.vals[CHOOSE i \in 1..Len(v.keys) : v.keys[i] = f]
    ELSE Undefined

\* The first element of the output array of a body, Undefined when there
\* is none.
OutputFirst(body) ==
    LET out == FieldOf(body, "output")
    IN  IF out.type = "array" /\ Len(out.items) > 0 THEN out.items[1] ELSE Undefined

\* The reference rule: generated_text of output[0] if truthy, else its text
\* if truthy, else a string body itself, else the first 2000 characters of
\* the serialized body.
ReferenceReply(body) ==
    LET gt == FieldOf(OutputFirst(body), "generated_text")
        tx == FieldOf(OutputFirst(body), "text")
        json == Stringify(body)
    IN  CASE Truthy(gt) -> gt
          [] ~Truthy(gt) /\ Truthy(tx) -> tx
          [] ~Truthy(gt) /\ ~Truthy(tx) /\ body.type = "string" -> body
          [] OTHER -> JString(IF Len(json) <= 2000 THEN json ELSE SubSeq(json, 1, 2000))

\* The documented examples of the rule.
ReplyExamples ==
    /\ ExtractReply(JObject(<<"output">>,
          <<JArray(<<JObject(<<"generated_text">>, <<JString("hi")>>)>>)>>)) = JString("hi")
    /\ ExtractReply(JObject(<<"output">>,
          <<JArray(<<JObject(<<"text">>, <<JString("hey")>>)>>)>>)) = JString("hey")
    /\ ExtractReply(JObject(<<"output">>,
          <<JArray(<<JObject(<<"generated_text", "text">>,
                             <<JString(""), JString("hey")>>)>>)>>)) = JString("hey")
    /\ ExtractReply(JString("ok")) = JString("ok")
    /\ ExtractReply(JObject(<<"results">>, <<JArray(<<>>)>>)) = JString("{\"results\":[]}")
    /\ ExtractReply(JObject(<<"output">>, <<JArray(<<>>)>>)) = JString("{\"output\":[]}")
    /\ ExtractReply(JObject(<<"pad">>, <<JString(LongString)>>))
          = JString("{\"pad\":\"" \o SubSeq(LongString, 1, 1992))

\* C12: for every body of the set, the message appended for a success
\* response holds the text the reference rule gives; the documented
\* examples give the documented texts.
C12_ReplyFollowsPrecedence ==
    [][/\ ReplyExamples
       /\ \A data \in ReplyBodies :
             JsonResolve(1, data)
                 => messages' = Append(messages,
                        [role |-> "assistant", text |-> ReferenceReply(data), by |-> 1])]_vars

\* The reply of the first exchange is a serialized body cut to the limit.
C12_Witness ==
    /\ Len(messages) >= 2
    /\ messages[2].role = "assistant"
    /\ messages[2].text.type = "string"
    /\ Len(messages[2].text.str) = 2000
    /\ SubSeq(messages[2].text.str, 1, 10) = "{\"output\":"

----------------------------------------------------------------------------
(* C13 *)

\* The step settles attempt n after a failure status with the given
\* detail: exactly one assistant message, "(!) Error: " and the detail.
SettlesWithError(n, detail) ==
    messages' = Append(messages,
        [role |-> "assistant", text |-> JString("(!) Error: " \o detail), by |-> n])

\* The last message of the log is the message of a failure status.
LastIsError ==
    /\ Len(messages) > 0
    /\ messages[Len(messages)].role = "assistant"
    /\ messages[Len(messages)].text.type = "string"
    /\ Len(messages[Len(messages)].text.str) >= 11
    /\ SubSeq(messages[Len(messages)].text.str, 1, 11) = "(!) Error: "

\* A submit of a non-blank input right after the message of a failure
\* status is accepted: user message, busy flag, request, handle in the slot.
SubmitAfterErrorAccepted ==
    (Calls' = Calls + 1 /\ ~IsBlank(input) /\ LastIsError)
        => /\ Len(messages') = Len(messages) + 1
           /\ messages'[Len(messages')].role = "user"
           /\ loading'
           /\ abortControllerRef' = Accepted + 1
           /\ pc'[Accepted + 1] = "fetch"
           /\ request'[Accepted + 1].url = "/chat"

\* The bodies a failure response resolves with in ReplySpec.
AllErrorBodies == ErrorReplyBodies \cup ErrorBodies

\* C13 as stated: after a failure status the one assistant message is
\* "(!) Error: " followed by the error field if the body has one, else by
\* the status text; a later submit is accepted.
C13_ErrorFieldIfPresent ==
    [][/\ \A n \in Attempts :
             /\ \A err \in AllErrorBodies :
                   ErrJsonResolve(n, err)
                       => SettlesWithError(n,
                              IF FieldOf(err, "error").type # "undefined"
                              THEN ToStr(FieldOf(err, "error"))
                              ELSE res[n].statusText)
             /\ ErrJsonReject(n) => SettlesWithError(n, res[n].statusText)
       /\ SubmitAfterErrorAccepted]_vars

\* C13 (amended): after a failure status the one assistant message is
\* "(!) Error: " followed by the error field if the body has one that is
\* truthy, else (no error field, an empty one, a body that cannot be
\* parsed) by the status text; a later submit is accepted.
C13_ErrorFieldIfTruthy ==
    [][/\ \A n \in Attempts :
             /\ \A err \in AllErrorBodies :
                   ErrJsonResolve(n, err)
                       => SettlesWithError(n,
                              IF Truthy(FieldOf(err, "error"))
                              THEN ToStr(FieldOf(err, "error"))
                              ELSE res[n].statusText)
             /\ ErrJsonReject(n) => SettlesWithError(n, res[n].statusText)
       /\ SubmitAfterErrorAccepted]_vars

\* The first exchange ended with the error field of its body, and the
\* next submit has been accepted and is in flight.
C13_Witness ==
    /\ Len(messages) = 3
    /\ messages[2].text = JString("(!) Error: rate limited")
    /\ messages[3].role = "user"
    /\ pc[2] = "fetch"
    /\ loading

----------------------------------------------------------------------------
(* C14 *)

\* The step appends exactly one assistant message of attempt n, with the
\* given text.
AppendsAssistant(n, text) ==
    messages' = Append(messages, [role |-> "assistant", text |-> JString(text), by |-> n])

\* C14: an attempt settles with the cancellation message if and only if a
\* newer submit cancelled it, and a fetch or a success body that fails for
\* any other reason settles with the generic network error message.
C14_FailureClassifiedByCause ==
    [][\A n \in Attempts :
          /\ (pc[n] # "done" /\ pc'[n] = "done")
                => (aborted[n] <=> AppendsAssistant(n, CancelledText))
          /\ \A name \in {"TypeError", "SyntaxError"} :
                (FetchReject(n, name) \/ JsonReject(n, name))
                    => AppendsAssistant(n, NetworkErrorText)]_vars

----------------------------------------------------------------------------
(* C15 *)

\* The places of the characters of s that are no whitespace.
InkPlaces(s) == {i \in 1..Len(s) : CharAt(s, i) \notin Whitespace}

\* s without its leading and trailing whitespace: from its first to its
\* last character that is no whitespace.
Trimmed(s) ==
    IF InkPlaces(s) = {} THEN ""
    ELSE SubSeq(s, CHOOSE i \in InkPlaces(s) : \A j \in InkPlaces(s) : i <= j,
                   CHOOSE i \in InkPlaces(s) : \A j \in InkPlaces(s) : j <= i)

\* C15: an accepted submit appends a user message whose text is the input
\* without its leading and trailing whitespace, and issues a POST to /chat
\* whose prompt is the same text, bound to the signal of the handle that
\* this submit stored in the slot.
C15_PromptIsTrimmedInput ==
    [][\A n \in Attempts :
          (pc[n] = "new" /\ pc'[n] = "fetch")
              => /\ messages' = Append(messages,
                        [role |-> "user", text |-> JString(Trimmed(input)), by |-> n])
                 /\ request'[n].url = "/chat"
                 /\ request'[n].prompt = Trimmed(input)
                 /\ request'[n].signal = abortControllerRef'
                 /\ abortControllerRef' = n
                 /\ ~aborted'[n]]_vars

\* The second submit, of an input with whitespace around and inside the
\* text, has replaced the first: its request carries the trimmed text and
\* the signal of the handle in the slot.
C15_Witness ==
    /\ aborted[1]
    /\ pc[2] = "fetch"
    /\ request[2] = [url |-> "/chat", prompt |-> "a b", signal |-> 2]
    /\ abortControllerRef = 2
    /\ messages[Len(messages)] = [role |-> "user", text |-> JString("a b"), by |-> 2]

----------------------------------------------------------------------------
(* C16 *)

\* C16: the status is idle until the effect issues the ping, warming while
\* the ping is pending, and ready after its success or idle after its
\* failure; it becomes warming only in the step that issues the ping, and
\* once it has left warming no step makes it warming again.
C16_WarmingOnce ==
    /\ [](probe = "mount" => status = "idle")
    /\ [](probe = "ping" => status = "warming")
    /\ [](probe = "done" => status \in {"ready", "idle"})
    /\ [][(status # "warming" /\ status' = "warming") => ProbeStart]_vars
    /\ [][(status = "warming" /\ status' # "warming")
             => \/ ProbeOk /\ status' = "ready"
                \/ ProbeFail /\ status' = "idle"]_vars
    /\ [][(probe # "mount" /\ status # "warming") => status' # "warming"]_vars

\* The probe has failed and three submits have been made and have settled
\* since: the status is idle.
C16_Witness ==
    /\ probe = "done"
    /\ status = "idle"
    /\ \A n \in 1..3 : pc[n] = "done"

----------------------------------------------------------------------------
(* C17 *)

\* C17: a step of the startup probe (issuing the ping, its success, its
\* failure) leaves the message log, the stored controller and the loading
\* flag unchanged, and a submit can be made in every status, warming
\* included, once the component is mounted.
C17_ProbeIndependentOfChat ==
    /\ [][(probe' # probe \/ status' # status)
             => UNCHANGED <<messages, abortControllerRef, loading>>]_vars
    /\ [](\A st \in {"warming", "ready", "idle"} :
             (status = st /\ probe # "mount" /\ Calls < MaxCalls)
                 => ENABLED SendMessage)

\* A submit was accepted while the status was warming and its request is in
\* flight with the ping still pending.
C17_Witness ==
    /\ status = "warming"
    /\ probe = "ping"
    /\ pc[1] = "fetch"
    /\ loading
    /\ Len(messages) = 1

----------------------------------------------------------------------------
(* C18 *)

\* C18: an accepted submit leaves the input empty; an empty input stays
\* empty until something is typed; and a call of sendMessage with the empty
\* input appends no user message, issues no request and aborts nothing:
\* the exchange in flight keeps its slot and its signal.
C18_ResubmitIsNoOp ==
    /\ [][(\E n \in Attempts : pc[n] = "new" /\ pc'[n] = "fetch")
             => input' = ""]_vars
    /\ [][(input = "" /\ ~(\E s \in InputChoices : Type(s)))
             => input' = ""]_vars
    /\ [][(input = "" /\ SendMessage)
             => /\ UNCHANGED <<messages, request, aborted, abortControllerRef,
                               loading, pc>>
                /\ Accepted' = Accepted]_vars

\* The second submit was accepted and, with nothing typed since, sendMessage
\* was called again and ignored: the second exchange is still in flight,
\* not aborted, with two user messages in the log.
C18_Witness ==
    /\ Len(trace) > 1
    /\ trace[Len(trace)] = Event("ignored", Null)
    /\ trace[Len(trace) - 1] = Event("fetch", 2)
    /\ input = ""
    /\ pc[2] = "fetch"
    /\ ~aborted[2]
    /\ abortControllerRef = 2
    /\ Cardinality({i \in 1..Len(messages) : messages[i].role = "user"}) = 2

----------------------------------------------------------------------------
(* C19 *)

RoleCount(role) ==
    Cardinality({i \in 1..Len(messages) : messages[i].role = role})

\* C19: the number of user messages in the log is the number of assistant
\* messages plus the number of exchanges that have not settled; so the
\* assistant messages never outnumber the user messages, and the counts
\* are equal exactly when no exchange is outstanding.
C19_UserEqualsAssistantPlusOutstanding ==
    /\ RoleCount("user") = RoleCount("assistant") + Cardinality(Outstanding)
    /\ RoleCount("assistant") <= RoleCount("user")
    /\ (RoleCount("user") = RoleCount("assistant")) <=> (Outstanding = {})
    /\ RoleCount("user") + RoleCount("assistant") = Len(messages)

\* Three submits overlapped; the first has settled with the cancellation
\* message and the other two are outstanding: three user messages, one
\* assistant message.
C19_Witness ==
    /\ RoleCount("user") = 3
    /\ RoleCount("assistant") = 1
    /\ Cardinality(Outstanding) = 2
    /\ SettledCancelled(1)

====
